---- MODULE Spec2Model ----
(***************************************************************************)
(* A model of the RAG pipeline of the AIUpskill repository: the three      *)
(* client variants (ChromaRAGClient, RAGClient, AzureRAGClient), their     *)
(* vector store, conversation memory and ask pipeline, the HTTP hosting    *)
(* layers that share one client between requests, and the Streamlit chat.  *)
(*                                                                         *)
(* Spec      one client, its operations taken one call at a time           *)
(* SpecFunc  azure-functions/function_app.py: concurrent requests on the   *)
(*           shared ChromaRAGClient (memory enabled)                       *)
(* SpecHost  src/RAG/LangChain/function_app.py: concurrent requests on the *)
(*           shared RAGClient (remote Azure Search index)                  *)
(* SpecChat  frontend/streamlit_app.py: the chat session                   *)
(* SpecIndex the DocumentProcessor indexing pipeline over a RAGClient      *)
(* SpecReindex  reindex_database and clear_database of that pipeline      *)
(* SpecBoundary  the HTTP host, the Streamlit page and rag-cli.py, each    *)
(*           behaviour running one of them                                 *)
(* SpecInteractive  interactive_mode of ChromaRAGClient: the lines typed   *)
(*                                                                         *)
(* Each behaviour is one process; entry names the entry point it runs: the *)
(* client used as a library, one of the two function apps, the Streamlit   *)
(* page, the command line or the interactive loop.                         *)
(***************************************************************************)
EXTENDS Integers, Sequences, FiniteSets, TLC

VARIABLES
    entry,                    \* the entry point this process runs
    variant,                  \* which client class the client is
    local,                    \* RAGClient.local (TRUE for ChromaRAGClient)
    enable_memory,            \* self.enable_memory
    enable_notebook_logging,  \* self.enable_notebook_logging
    memory_obj,               \* self.memory is not None
    memory,                   \* self.memory.chat_memory.messages
    store,                    \* the collection / index: chunks in insertion order
    k,                        \* retriever.k / top_k_results
    handles,                  \* which handles refer to the live collection
    last,                     \* what the last call did and returned
    rag_client,               \* the module global _rag_client: 0 is None
    inst,                     \* the client instances constructed, in order
    strict_fields,            \* the retriever class rejects undeclared fields
    disk,                     \* the temporary files of upload_pdf on disk
    document_processor,       \* the module global _document_processor: 0 is None
    procs,                    \* the DocumentProcessors constructed: their client
    pc,                       \* per request slot: position in its handler
    req,                      \* per request slot: the request being served
    loc,                      \* per request slot: the handler's locals
    served,                   \* requests accepted so far
    responses,                \* per request slot: the last response sent
    messages,                 \* st.session_state.messages (roles)
    show_clear_confirm,       \* st.session_state.show_clear_confirm
    chat_last                 \* what the last Streamlit rerun did

clientVars == <<entry, variant, local, enable_memory, enable_notebook_logging,
                memory_obj, memory, store, k, handles, last>>
configVars == <<entry, variant, local, enable_memory, enable_notebook_logging,
                memory_obj, k, handles>>
hostVars   == <<rag_client, inst, strict_fields, disk, document_processor,
                procs,
                pc, req, loc, served, responses>>
chatVars   == <<messages, show_clear_confirm, chat_last>>
vars       == <<clientVars, hostVars, chatVars>>

(***************************************************************************)
(* Bounds of the model.                                                    *)
(***************************************************************************)
MaxStore == 2          \* chunks a collection holds at most
MaxTurns == 2          \* exchanges a conversation memory holds at most
MaxRequests == 3       \* HTTP requests accepted in one run
MaxChatMessages == 52  \* chat messages a session holds at most
MaxPaths == 3          \* paths one indexing call is given at most

(***************************************************************************)
(* Program constants.                                                      *)
(***************************************************************************)
MAX_CHAT_HISTORY == 50

(***************************************************************************)
(* Data.                                                                   *)
(***************************************************************************)
Queries == {"q1", "q2"}
LLMTexts == {"gen1"}                \* texts the generation service produces
StandaloneQuestions == {"standalone"}  \* questions the question generator produces
TopKs == {1, 2}                     \* values TOP_K_RESULTS is configured with
Chunks == {"c1", "c2", "c3"}
Scores == {1, 2}                    \* scores the store attaches to a hit
Variants == {"ChromaRAGClient", "RAGClient", "AzureRAGClient"}

\* The metadata a stored chunk carries: c1 and c3 as the PDF pipeline writes
\* it (PyPDFLoader sets page), c2 a document added with a source only.
Metadata(c) ==
    CASE c = "c1" -> [source |-> "a.pdf", source_file |-> "/docs/a.pdf",
                      page |-> "p1"]
      [] c = "c3" -> [source |-> "a2.pdf", source_file |-> "/docs/a2.pdf",
                      page |-> "p1"]
      [] OTHER -> [source |-> "b.pdf"]

\* dict.get(key, default)
Get(d, key, default) == IF key \in DOMAIN d THEN d[key] ELSE default

Min(a, b) == IF a < b THEN a ELSE b

SeqsUpTo(S, n) == UNION {[1..m -> S] : m \in 0..n}

Human(text) == [role |-> "user", content |-> text]
AI(text) == [role |-> "assistant", content |-> text]

NoDocsChroma == "No documents found in the database. Please add documents first using process_pdf_files()."
NoDocsRAG == "No documents found in the database. Please add documents first."
NoInfoAzure == "I couldn't find any relevant information to answer your question."
FallbackAnswers == {NoDocsChroma, NoDocsRAG, NoInfoAzure}

(***************************************************************************)
(* The vector store's similarity search.  Which chunks are nearest depends *)
(* on the embedding of the query, so the ranking is an input: any min(k,   *)
(* count) distinct stored chunks, best first, with the store's scores.     *)
(***************************************************************************)
Rankings(n, m) ==
    {p \in [1..m -> 1..n] : \A i, j \in 1..m : i # j => p[i] # p[j]}

ScoreSeqs(m) ==
    {s \in [1..m -> Scores] : \A i, j \in 1..m : i < j => s[i] <= s[j]}

SimilaritySearch(st, kk) ==
    LET m == Min(kk, Len(st))
    IN  {[j \in 1..m |-> [chunk |-> st[p[j]], score |-> s[j]]] :
            p \in Rankings(Len(st), m), s \in ScoreSeqs(m)}

(***************************************************************************)
(* The retrievers.  ChromaRetriever writes the score into each document's  *)
(* metadata; the AzureSearch retriever of RAGClient returns the documents  *)
(* as stored.                                                              *)
(***************************************************************************)
WithScore(meta, s) ==
    [key \in DOMAIN meta \cup {"score"} |->
        IF key = "score" THEN s ELSE meta[key]]

\* a retriever that hands the hits back last first
ChromaRetrieverDocsReversed(hits) ==
    [j \in DOMAIN hits |->
        [page_content |-> hits[Len(hits) + 1 - j].chunk,
         metadata |-> WithScore(Metadata(hits[Len(hits) + 1 - j].chunk),
                                hits[Len(hits) + 1 - j].score)]]

ChromaRetrieverDocs(hits) ==
    [j \in DOMAIN hits |->
        [page_content |-> hits[j].chunk,
         metadata |-> WithScore(Metadata(hits[j].chunk), hits[j].score)]]

AzureSearchRetrieverDocs(hits) ==
    [j \in DOMAIN hits |->
        [page_content |-> hits[j].chunk, metadata |-> Metadata(hits[j].chunk)]]

GetRelevantDocuments(isLocal, hits) ==
    IF isLocal THEN ChromaRetrieverDocs(hits) ELSE AzureSearchRetrieverDocs(hits)

(***************************************************************************)
(* ask_rag of ChromaRAGClient and RAGClient: its pieces.                   *)
(***************************************************************************)
\* doc_count: the collection's count, or the constant 1 for the remote index
DocCount(v, isLocal, st) ==
    IF v = "RAGClient" /\ ~isLocal THEN 1 ELSE Len(st)

NoDocsResponse(v, q) ==
    [query |-> q,
     answer |-> IF v = "ChromaRAGClient" THEN NoDocsChroma ELSE NoDocsRAG,
     sources |-> <<>>,
     context_used |-> FALSE,
     num_sources |-> 0]

\* if self.enable_memory and self.memory
\* a client that runs the conversational chain whatever its switches say
UseMemoryAlways(en, obj) == TRUE

UseMemory(en, obj) == en /\ obj

\* The prompt template: instructions, {context}, {question}.  The stuff
\* chain fills {context} with the documents' page contents in order.
PromptTemplate(docs, question) ==
    <<"Instructions", "Context Documents:">>
    \o [j \in DOMAIN docs |-> docs[j].page_content]
    \o <<"Question:", question, "Answer:">>

\* The question generator's prompt of ConversationalRetrievalChain: the
\* chat history and the follow-up question.
CondensePrompt(history, question) ==
    <<"Chat History:">>
    \o [j \in DOMAIN history |-> history[j].content]
    \o <<"Follow Up Input:", question, "Standalone question:">>

FormatSources(docs) ==
    [j \in DOMAIN docs |->
        [title |-> Get(docs[j].metadata, "source", "Unknown"),
         source |-> Get(docs[j].metadata, "source_file",
                        Get(docs[j].metadata, "source", "Unknown")),
         score |-> Get(docs[j].metadata, "score", 0),
         page |-> Get(docs[j].metadata, "page", "N/A")]]

Response(q, answer, sources) ==
    [query |-> q,
     answer |-> answer,
     sources |-> sources,
     context_used |-> Len(sources) > 0,
     num_sources |-> Len(sources)]

\* memory.save_context: the chain appends the question asked and its answer
SaveContext(mem, q, answer) == mem \o <<Human(q), AI(answer)>>

NoResult == [none |-> TRUE]
NoCall ==
    [op |-> "init", query |-> "", raised |-> FALSE, failed |-> "none",
     result |-> NoResult, llm_calls |-> 0, prompt |-> <<>>,
     mem_before |-> <<>>, count_at_call |-> 0, history_read |-> <<>>]

LangFailures == {"none", "condense", "retrieval", "generation", "notebook"}

(***************************************************************************)
(* ask_rag(query).  The collaborators' behaviour is the input: the store's *)
(* hits, the step that fails (if the call reaches it), the question the    *)
(* question generator produces and the answer the LLM produces.  The chain *)
(* (Chain.__call__) loads the memory, runs, and saves the exchange to the  *)
(* memory when it has run without error; the sources are formatted and the *)
(* notebook is written after the chain has returned.                       *)
(***************************************************************************)
AskRagOutcome(v, isLocal, en, obj, nb, mem, st, q, hits, fail, cq, ans) ==
    LET doc_count == DocCount(v, isLocal, st)
        use_mem == UseMemory(en, obj)
        condense == use_mem /\ mem # <<>>
        question == IF condense THEN cq ELSE q
        docs == GetRelevantDocuments(isLocal, hits)
        sources == FormatSources(docs)
        response == Response(q, ans, sources)
        failed ==
            IF doc_count = 0 THEN "none"
            ELSE IF condense /\ fail = "condense" THEN "condense"
            ELSE IF fail = "retrieval" THEN "retrieval"
            ELSE IF fail = "generation" THEN "generation"
            ELSE IF fail = "notebook" /\ nb /\ response.context_used
                 THEN "notebook"
            ELSE "none"
        answered == doc_count # 0 /\ failed \notin {"condense", "retrieval"}
        chain_ok == doc_count # 0 /\ failed \in {"none", "notebook"}
    IN  [call |->
            [op |-> "ask", query |-> q,
             raised |-> failed # "none",
             failed |-> failed,
             result |-> IF doc_count = 0 THEN NoDocsResponse(v, q)
                        ELSE IF failed # "none" THEN NoResult
                        ELSE response,
             llm_calls |-> IF doc_count = 0 THEN 0
                           ELSE (IF condense THEN 1 ELSE 0)
                                + (IF answered THEN 1 ELSE 0),
             prompt |-> IF answered THEN PromptTemplate(docs, question)
                        ELSE <<>>,
             hits |-> IF answered THEN hits ELSE <<>>,
             docs |-> IF answered THEN docs ELSE <<>>,
             mem_before |-> mem,
             count_at_call |-> Len(st),
             history_read |-> IF doc_count # 0 /\ use_mem THEN mem ELSE <<>>],
         memory |-> IF use_mem /\ chain_ok THEN SaveContext(mem, q, ans)
                    ELSE mem]

AskRag(q, hits, fail, cq, ans) ==
    /\ variant \in {"ChromaRAGClient", "RAGClient"}
    /\ UseMemory(enable_memory, memory_obj) => Len(memory) < 2 * MaxTurns
    /\ LET out == AskRagOutcome(variant, local, enable_memory, memory_obj,
                                enable_notebook_logging, memory, store,
                                q, hits,
                                IF handles.retriever THEN fail
                                ELSE "retrieval",
                                cq, ans)
       IN  /\ last' = out.call
           /\ memory' = out.memory
    /\ UNCHANGED <<entry, handles, variant, local, enable_memory,
                   enable_notebook_logging,
                   memory_obj, store, k>>
    /\ UNCHANGED <<hostVars, chatVars>>

(***************************************************************************)
(* AzureRAGClient of RAG/RagClient.py: embeddings, hybrid search, prompt,  *)
(* chat completion.                                                        *)
(***************************************************************************)
\* The fields an index document carries: c1 with title and url, c3 with a
\* title, c2 with a file path only.
IndexFields(c) ==
    CASE c = "c1" -> [content |-> "c1", title |-> "Doc A", url |-> "http://a",
                      filepath |-> "a.pdf"]
      [] c = "c3" -> [content |-> "c3", title |-> "Doc A2",
                      filepath |-> "a2.pdf"]
      [] OTHER -> [content |-> "c2", filepath |-> "b.pdf"]

\* x or y, for strings: the empty string is falsy
Or(x, y) == IF x # "" THEN x ELSE y

\* search_documents: the list built from the search results
SearchDocuments(hits) ==
    [j \in DOMAIN hits |->
        LET doc == IndexFields(hits[j].chunk)
        IN  [content |-> Get(doc, "content", ""),
             title |-> Get(doc, "title", ""),
             score |-> hits[j].score,
             source |-> Or(Get(doc, "url", ""), Get(doc, "filepath", "Unknown"))]]

\* a prompt whose blocks are numbered from 0 and listed last first
CreateRagPromptReversed(q, context_docs) ==
    [system |-> "Instructions",
     blocks |-> [j \in DOMAIN context_docs |->
                    LET doc == context_docs[Len(context_docs) + 1 - j]
                    IN  [label |-> j - 1,
                         source_info |-> IF doc.title # ""
                                         THEN <<doc.source, doc.title>>
                                         ELSE <<doc.source>>,
                         content |-> doc.content]],
     question |-> q]

\* create_rag_prompt: the instructions, one "Document i" block per document
\* in order (source label, title when there is one, content), the question
CreateRagPrompt(q, context_docs) ==
    [system |-> "Instructions",
     blocks |-> [j \in DOMAIN context_docs |->
                    [label |-> j,
                     source_info |->
                        IF context_docs[j].title # ""
                        THEN <<context_docs[j].source, context_docs[j].title>>
                        ELSE <<context_docs[j].source>>,
                     content |-> context_docs[j].content]],
     question |-> q]

\* Raw completions of the chat model, and str.strip()
RawCompletions == {"gen1", " gen2 "}
Strip(t) == IF t = " gen2 " THEN "gen2" ELSE t

NoInfoResponse(q) ==
    [query |-> q, answer |-> NoInfoAzure, sources |-> <<>>,
     context_used |-> FALSE]

AzureSources(documents) ==
    [j \in DOMAIN documents |->
        [title |-> documents[j].title,
         source |-> documents[j].source,
         score |-> documents[j].score]]

AzureResult(q, answer, documents) ==
    [query |-> q,
     answer |-> answer,
     sources |-> AzureSources(documents),
     context_used |-> TRUE,
     num_sources |-> Len(documents)]

AzureFailures ==
    {"none", "embedding", "embedding_empty", "search", "generation",
     "no_choices"}

(***************************************************************************)
(* ask(query) of AzureRAGClient.  An exception of the embeddings call, the *)
(* search or the completion call is caught nowhere; an embeddings response *)
(* without data makes search_documents return []; a completion without     *)
(* choices reaches the logging line that reads response.status_code, which *)
(* raises AttributeError when the response object has no such attribute    *)
(* (attr_error) and otherwise lets generate_response return "".            *)
(***************************************************************************)
AzureAskOutcome(st, kk, q, hits, fail, raw, attr_error) ==
    LET documents == IF fail = "embedding_empty" THEN <<>>
                     ELSE SearchDocuments(hits)
        failed ==
            IF fail \in {"embedding", "embedding_empty", "search"} THEN fail
            ELSE IF documents = <<>> THEN "none"
            ELSE fail
        raised == \/ failed \in {"embedding", "search", "generation"}
                  \/ failed = "no_choices" /\ attr_error
        generating == documents # <<>> /\ failed \notin {"embedding", "search"}
        searched == failed \notin {"embedding", "embedding_empty", "search"}
        answer == IF failed = "no_choices" THEN "" ELSE Strip(raw)
    IN  [op |-> "ask", query |-> q,
         raised |-> raised,
         failed |-> failed,
         result |-> IF raised THEN NoResult
                    ELSE IF documents = <<>> THEN NoInfoResponse(q)
                    ELSE AzureResult(q, answer, documents),
         llm_calls |-> IF generating THEN 1 ELSE 0,
         prompt |-> IF generating THEN CreateRagPrompt(q, documents) ELSE <<>>,
         store_queries |-> IF failed \in {"embedding", "embedding_empty"}
                           THEN 0 ELSE 1,
         hits |-> IF searched THEN hits ELSE <<>>,
         docs |-> IF searched THEN documents ELSE <<>>,
         mem_before |-> <<>>,
         count_at_call |-> Len(st),
         history_read |-> <<>>]

AzureAsk(q, hits, fail, raw, attr_error) ==
    /\ variant = "AzureRAGClient"
    /\ last' = AzureAskOutcome(store, k, q, hits, fail, raw, attr_error)
    /\ UNCHANGED <<entry, handles, variant, local, enable_memory,
                   enable_notebook_logging,
                   memory_obj, memory, store, k>>
    /\ UNCHANGED <<hostVars, chatVars>>

(***************************************************************************)
(* add_documents and clear_database of ChromaRAGClient and RAGClient.      *)
(***************************************************************************)
Batches == SeqsUpTo(Chunks, MaxStore) \ {<<>>}

\* The position of a chunk among the chunks of its file, and the first 100
\* characters of its text: c1 and c3 are the first chunks of two files that
\* open with the same text.
ChunkIndex(c) == 0
Prefix(c) == IF c \in {"c1", "c3"} THEN "Travel brochure" ELSE "Hotel list"

\* hash(): within one process equal texts hash equally; distinct texts are
\* taken to hash differently
Hash(text) == text

\* chunk.id = f"doc_{i}_{hash(chunk.page_content[:100])}"
ChunkId(i, text) == <<"doc", i, Hash(text)>>

\* The id a chunk is written under when the caller passes ids
\* (RAGClient.add_documents passes doc.id)
Id(c) == ChunkId(ChunkIndex(c), Prefix(c))

Ids(st) == {Id(st[i]) : i \in DOMAIN st}

DistinctIds(st) == \A i, j \in DOMAIN st : i # j => Id(st[i]) # Id(st[j])

\* Writing under given ids replaces the entry that has the id, in place
RECURSIVE Upsert(_, _)
Upsert(st, batch) ==
    IF batch = <<>> THEN st
    ELSE Upsert(IF Id(Head(batch)) \in Ids(st)
                THEN [i \in DOMAIN st |->
                        IF Id(st[i]) = Id(Head(batch)) THEN Head(batch)
                        ELSE st[i]]
                ELSE Append(st, Head(batch)),
                Tail(batch))

\* vectorstore.add_documents embeds the texts, then writes them: under
\* fresh ids (ChromaRAGClient), or under the documents' ids (RAGClient)
StoreAfterAdd(v, st, batch, ok) ==
    IF ~ok THEN st
    ELSE IF v = "RAGClient" THEN Upsert(st, batch)
    ELSE st \o batch

AddDocuments(batch, ok) ==
    /\ variant \in {"ChromaRAGClient", "RAGClient"}
    /\ Len(store) + Len(batch) <= MaxStore
    /\ store' = StoreAfterAdd(variant, store, batch, ok)
    /\ last' = [NoCall EXCEPT !.op = "add_documents", !.raised = ~ok,
                              !.failed = IF ok THEN "none" ELSE "embedding",
                              !.mem_before = memory,
                              !.count_at_call = Len(store)]
    /\ UNCHANGED <<entry, handles, variant, local, enable_memory,
                   enable_notebook_logging,
                   memory_obj, memory, k>>
    /\ UNCHANGED <<hostVars, chatVars>>

\* delete_collection and a fresh collection of the same name (local), or
\* delete_documents of every id the search returned (remote)
StoreAfterClear(st) == <<>>

(***************************************************************************)
(* The handles of a client: self.vectorstore and the vectorstore the       *)
(* retriever searches, each recorded by whether it refers to the live      *)
(* collection.  delete_collection leaves every existing handle pointing at *)
(* the deleted collection; building a new vectorstore gives a live one;    *)
(* ChromaRAGClient then assigns it to retriever.vectorstore and RAGClient  *)
(* builds a new retriever on it.  The remote index is emptied in place.    *)
(***************************************************************************)
LiveHandles == [vectorstore |-> TRUE, retriever |-> TRUE]

DeleteCollection(h) == [vectorstore |-> FALSE, retriever |-> FALSE]

NewVectorstore(h) == [h EXCEPT !.vectorstore = TRUE]

\* a clear that leaves the retriever on the vectorstore it had
KeepRetriever(h) == h

UpdateRetriever(h) == [h EXCEPT !.retriever = h.vectorstore]

HandlesAfterClear(isLocal, h) ==
    UpdateRetriever(NewVectorstore(IF isLocal THEN DeleteCollection(h) ELSE h))

ClearDatabase ==
    /\ variant \in {"ChromaRAGClient", "RAGClient"}
    /\ store' = StoreAfterClear(store)
    /\ handles' = HandlesAfterClear(local, handles)
    /\ last' = [NoCall EXCEPT !.op = "clear_database", !.mem_before = memory,
                              !.count_at_call = Len(store)]
    /\ UNCHANGED <<entry, variant, local, enable_memory, enable_notebook_logging,
                   memory_obj, memory, k>>
    /\ UNCHANGED <<hostVars, chatVars>>

(***************************************************************************)
(* DocumentProcessor of PDFprocessor.py: validation, loading and splitting, *)
(* indexing.  The file system and the PDF loader are fixed data: what      *)
(* each path is on disk and the chunks its text splits into.               *)
(***************************************************************************)
Paths ==
    {"/docs/a.pdf", "/docs/a2.pdf", "/docs/scan.pdf", "/docs/empty.pdf",
     "/docs/notes.txt", "/docs/missing.pdf"}

Exists(path) == path # "/docs/missing.pdf"
IsPdfSuffix(path) == path # "/docs/notes.txt"
StatSize(path) == IF path = "/docs/empty.pdf" THEN 0 ELSE 1

\* The chunks the loader and the splitter make of a file: scan.pdf has
\* pages without text and splits into no chunk
LoadAndSplit(path) ==
    CASE path = "/docs/a.pdf" -> <<"c1">>
      [] path = "/docs/a2.pdf" -> <<"c3">>
      [] OTHER -> <<>>

\* validate_pdf_files: one test per path, the passing paths in input order
\* what a path is on disk: absent, not named .pdf, a zero-byte .pdf, or a
\* .pdf file with content
PathKind(path) ==
    IF ~Exists(path) THEN "missing"
    ELSE IF ~IsPdfSuffix(path) THEN "not_pdf"
    ELSE IF StatSize(path) = 0 THEN "empty"
    ELSE "file"

\* validation without the size check
ValidPdfAnySize(path) == Exists(path) /\ IsPdfSuffix(path)

ValidPdf(path) == Exists(path) /\ IsPdfSuffix(path) /\ StatSize(path) # 0

ValidatePdfFiles(pdf_paths) == SelectSeq(pdf_paths, ValidPdf)

ProcessSinglePdf(pdf_path) == LoadAndSplit(pdf_path)

RECURSIVE ProcessPdfBatch(_)
ProcessPdfBatch(pdf_paths) ==
    IF pdf_paths = <<>> THEN <<>>
    ELSE ProcessSinglePdf(Head(pdf_paths)) \o ProcessPdfBatch(Tail(pdf_paths))

\* the result with chunks_indexed counted whether or not the upload succeeded
IndexResultCountsAll(success, valid_files, documents) ==
    [success |-> success,
     files_processed |-> Len(valid_files),
     chunks_created |-> Len(documents),
     chunks_indexed |-> Len(documents)]

\* process_pdf_batch's counter of the files that gave at least one chunk
Successful(pdf_paths) ==
    Len(SelectSeq(pdf_paths, LAMBDA path : ProcessSinglePdf(path) # <<>>))

\* The result dictionary of index_pdf_files
IndexResult(success, valid_files, documents) ==
    [success |-> success,
     files_processed |-> Len(valid_files),
     chunks_created |-> Len(documents),
     chunks_indexed |-> IF success THEN Len(documents) ELSE 0]

NothingIndexed ==
    [success |-> FALSE, files_processed |-> 0, chunks_created |-> 0,
     chunks_indexed |-> 0]

IndexFailures == {"none", "loader", "duplicate_ids", "embedding", "indexing",
                  "no_ids"}

(***************************************************************************)
(* index_pdf_files(pdf_paths).  Inputs besides the paths: the step that    *)
(* fails and, for an upload that fails part way, the number of documents   *)
(* written before it failed.  The loader raising, the embedding service    *)
(* raising and the upload raising are caught nowhere; a local collection   *)
(* rejects a batch that carries an id twice; a store that returns no ids   *)
(* makes add_documents return False.                                       *)
(***************************************************************************)
IndexPdfFilesOutcome(v, isLocal, st, pdf_paths, fail, written) ==
    LET valid_files == ValidatePdfFiles(pdf_paths)
        documents == ProcessPdfBatch(valid_files)
        failed ==
            IF valid_files = <<>> THEN "none"
            ELSE IF fail = "loader" THEN "loader"
            ELSE IF documents = <<>> THEN "none"
            ELSE IF v = "RAGClient" /\ isLocal /\ ~DistinctIds(documents)
                 THEN "duplicate_ids"
            ELSE IF fail \in {"embedding", "no_ids"} THEN fail
            ELSE IF fail = "indexing" /\ ~isLocal THEN "indexing"
            ELSE "none"
        raised == failed \in {"loader", "duplicate_ids", "embedding",
                              "indexing"}
        adding == valid_files # <<>> /\ documents # <<>> /\ failed # "loader"
        success == adding /\ failed = "none"
        stored ==
            IF success THEN StoreAfterAdd(v, st, documents, TRUE)
            ELSE IF failed = "indexing"
            THEN StoreAfterAdd(v, st,
                               SubSeq(documents, 1,
                                      Min(written, Len(documents) - 1)), TRUE)
            ELSE st
    IN  [call |->
            [op |-> "index_pdf_files", clear_existing |-> FALSE,
             kinds |-> {PathKind(pdf_paths[i]) : i \in DOMAIN pdf_paths},
             successful |-> Successful(valid_files),
             raised |-> raised, failed |-> failed,
             result |-> IF raised THEN NoResult
                        ELSE IF ~adding THEN NothingIndexed
                        ELSE IndexResult(success, valid_files, documents),
             valid_files |-> valid_files,
             documents |-> IF valid_files = <<>> \/ failed = "loader"
                           THEN <<>> ELSE documents,
             loader_calls |-> IF valid_files = <<>> THEN 0
                              ELSE IF failed = "loader" THEN 1
                              ELSE Len(valid_files),
             store_calls |-> IF adding /\ failed # "duplicate_ids" THEN 1
                             ELSE 0,
             store_before |-> st,
             llm_calls |-> 0, count_at_call |-> Len(st)],
         store |-> stored]

IndexPdfFiles(pdf_paths, fail, written) ==
    /\ variant = "RAGClient"
    /\ Len(store) + Len(ProcessPdfBatch(ValidatePdfFiles(pdf_paths)))
            <= MaxStore
    /\ LET out == IndexPdfFilesOutcome(variant, local, store, pdf_paths, fail,
                                       written)
       IN  /\ last' = out.call
           /\ store' = out.store
    /\ UNCHANGED <<entry, handles, variant, local, enable_memory,
                   enable_notebook_logging,
                   memory_obj, memory, k>>
    /\ UNCHANGED <<hostVars, chatVars>>

\* find_pdf_files: a directory that does not exist or holds no PDF gives [],
\* otherwise the PDFs in the order the file system lists them
Directories == {"/nowhere", "/texts", "/docs"}

FindPdfFiles(directory) ==
    IF directory = "/docs"
    THEN {<<"/docs/a.pdf", "/docs/empty.pdf">>,
          <<"/docs/empty.pdf", "/docs/a.pdf">>}
    ELSE {<<>>}

\* index_directory(directory): the empty result when no PDF is found (the
\* result index_pdf_files gives for no path), otherwise index_pdf_files
IndexDirectory(directory, pdf_files, fail, written) ==
    /\ variant = "RAGClient"
    /\ pdf_files \in FindPdfFiles(directory)
    /\ Len(store) + Len(ProcessPdfBatch(ValidatePdfFiles(pdf_files)))
            <= MaxStore
    /\ LET out == IndexPdfFilesOutcome(variant, local, store, pdf_files, fail,
                                       written)
       IN  /\ last' = [out.call EXCEPT !.op = "index_directory"]
           /\ store' = out.store
    /\ UNCHANGED <<entry, handles, variant, local, enable_memory,
                   enable_notebook_logging,
                   memory_obj, memory, k>>
    /\ UNCHANGED <<hostVars, chatVars>>

\* reindex_database(pdf_paths, clear_existing): clear_database when asked,
\* then index_pdf_files; nothing is caught and nothing is restored
ReindexDatabase(pdf_paths, clear_existing, fail, written) ==
    /\ variant = "RAGClient"
    /\ LET cleared == IF clear_existing THEN StoreAfterClear(store) ELSE store
           out == IndexPdfFilesOutcome(variant, local, cleared, pdf_paths,
                                       fail, written)
       IN  /\ Len(cleared) + Len(ProcessPdfBatch(ValidatePdfFiles(pdf_paths)))
                    <= MaxStore
           /\ last' = [out.call EXCEPT !.op = "reindex_database",
                                       !.clear_existing = clear_existing]
           /\ store' = out.store
    /\ handles' = IF clear_existing THEN HandlesAfterClear(local, handles)
                  ELSE handles
    /\ UNCHANGED <<entry, variant, local, enable_memory,
                   enable_notebook_logging, memory_obj, memory, k>>
    /\ UNCHANGED <<hostVars, chatVars>>

\* get_database_info: ChromaRAGClient counts the collection; RAGClient
\* reports the configuration only
DatabaseInfo(v, st) ==
    IF v = "ChromaRAGClient"
    THEN [total_documents |-> Len(st), collection_name |-> "rag_documents"]
    ELSE [collection_name |-> "rag_documents"]

\* after: the operation that was called just before this one
GetDatabaseInfo ==
    /\ variant \in {"ChromaRAGClient", "RAGClient"}
    /\ last' = [op |-> "get_database_info", after |-> last.op,
                raised |-> FALSE, failed |-> "none",
                result |-> DatabaseInfo(variant, store),
                llm_calls |-> 0, mem_before |-> memory,
                count_at_call |-> Len(store)]
    /\ UNCHANGED <<entry, handles, variant, local, enable_memory,
                   enable_notebook_logging,
                   memory_obj, memory, store, k>>
    /\ UNCHANGED <<hostVars, chatVars>>

(***************************************************************************)
(* The initial states: a client as its constructor leaves it, over a store *)
(* that persists between runs and so may already hold chunks.              *)
(***************************************************************************)
NoRequest == [kind |-> "none"]
NoResponse == [status |-> 0]
NoLocals == [none |-> TRUE]
Slots == {1, 2}

HostIdle ==
    /\ rag_client = 0
    /\ disk = {}
    /\ inst = <<>>
    /\ document_processor = 0
    /\ procs = <<>>
    /\ pc = [r \in Slots |-> "idle"]
    /\ req = [r \in Slots |-> NoRequest]
    /\ loc = [r \in Slots |-> NoLocals]
    /\ served = 0
    /\ responses = [r \in Slots |-> NoResponse]

ChatIdle ==
    /\ messages = <<>>
    /\ show_clear_confirm = FALSE
    /\ chat_last = "init"

Init ==
    /\ entry = "library"
    /\ variant \in Variants
    /\ local \in BOOLEAN
    /\ variant = "ChromaRAGClient" => local
    /\ variant = "AzureRAGClient" => ~local
    /\ enable_memory \in BOOLEAN
    /\ enable_notebook_logging \in BOOLEAN
    /\ variant = "AzureRAGClient" => ~enable_memory /\ ~enable_notebook_logging
    /\ memory_obj = enable_memory
    /\ memory = <<>>
    /\ store \in SeqsUpTo(Chunks, MaxStore)
    /\ variant = "RAGClient" => DistinctIds(store)
    /\ k \in TopKs
    /\ last = NoCall
    /\ handles = LiveHandles
    /\ strict_fields = FALSE
    /\ HostIdle
    /\ ChatIdle

\* The inputs of a call: what the collaborators can do in the state the
\* call starts in.  A step the call cannot reach cannot fail, and an output
\* the call does not read is not drawn.
LangInputs ==
    LET condense == UseMemory(enable_memory, memory_obj) /\ memory # <<>>
        empty == DocCount(variant, local, store) = 0
    IN  {[fail |-> f, hits |-> h, cq |-> c, ans |-> a] :
            f \in IF empty THEN {"none"}
                  ELSE {"none", "retrieval", "generation"}
                       \cup (IF condense THEN {"condense"} ELSE {})
                       \cup (IF enable_notebook_logging /\ store # <<>>
                             THEN {"notebook"} ELSE {}),
            h \in SimilaritySearch(store, k),
            c \in StandaloneQuestions,
            a \in LLMTexts}

AzureInputs ==
    {[fail |-> f, hits |-> h, raw |-> r, attr_error |-> e] :
        f \in AzureFailures, h \in SimilaritySearch(store, k),
        r \in RawCompletions, e \in BOOLEAN}

Next ==
    \/ /\ variant \in {"ChromaRAGClient", "RAGClient"}
       /\ \E q \in Queries, in \in LangInputs :
            AskRag(q, in.hits, in.fail, in.cq, in.ans)
    \/ /\ variant = "AzureRAGClient"
       /\ \E q \in Queries, in \in AzureInputs :
            AzureAsk(q, in.hits, in.fail, in.raw, in.attr_error)
    \/ \E batch \in Batches, ok \in BOOLEAN : AddDocuments(batch, ok)
    \/ ClearDatabase
    \/ GetDatabaseInfo

Spec == Init /\ [][Next]_vars

(***************************************************************************)
(* The indexing pipeline on its own: a DocumentProcessor over a RAGClient  *)
(* (local or remote), its calls taken one at a time.                       *)
(***************************************************************************)
\* The failures a call on these paths can meet, and the documents an
\* upload that fails part way has written
IndexInputs(pdf_paths) ==
    LET valid_files == ValidatePdfFiles(pdf_paths)
        documents == ProcessPdfBatch(valid_files)
    IN  {in \in [fail : IndexFailures \ {"duplicate_ids"},
                 written : 0..(MaxPaths - 1)] :
            /\ in.written = 0 \/ (in.fail = "indexing" /\ ~local)
            /\ in.written < Len(documents) \/ in.written = 0
            /\ valid_files = <<>> => in.fail = "none"
            /\ documents = <<>> => in.fail \in {"none", "loader"}
            /\ in.fail = "indexing" => ~local}

IndexInit ==
    /\ entry = "library"
    /\ variant = "RAGClient"
    /\ local \in BOOLEAN
    /\ enable_memory = FALSE
    /\ enable_notebook_logging = FALSE
    /\ memory_obj = FALSE
    /\ memory = <<>>
    /\ store \in {<<>>, <<"c2">>}
    /\ k = 2
    /\ last = NoCall
    /\ handles = LiveHandles
    /\ strict_fields = FALSE
    /\ HostIdle
    /\ ChatIdle

IndexNext ==
    \/ \E pdf_paths \in SeqsUpTo(Paths, MaxPaths) :
            \E in \in IndexInputs(pdf_paths) :
                IndexPdfFiles(pdf_paths, in.fail, in.written)
    \/ \E directory \in Directories :
            \E pdf_files \in FindPdfFiles(directory) :
                \E in \in IndexInputs(pdf_files) :
                    IndexDirectory(directory, pdf_files, in.fail, in.written)
    \/ ClearDatabase

SpecIndex == IndexInit /\ [][IndexNext]_vars

\* The same processor used through reindex_database.  Without
\* clear_existing the call is index_pdf_files, which SpecIndex covers.
ReindexNext ==
    \/ \E pdf_paths \in SeqsUpTo(Paths, MaxPaths), clear_existing \in {TRUE} :
            \E in \in IndexInputs(pdf_paths) :
                ReindexDatabase(pdf_paths, clear_existing, in.fail, in.written)
    \/ ClearDatabase

SpecReindex == IndexInit /\ [][ReindexNext]_vars

(***************************************************************************)
(* The HTTP hosting layers.  Each request slot is one invocation running   *)
(* its handler; the host runs invocations concurrently, so the steps of    *)
(* two handlers interleave at every access to a module global, to the      *)
(* shared client or to the store.                                          *)
(***************************************************************************)
Callers == {"alice", "bob"}

\* The handler returns an HttpResponse: the invocation is over
Respond(r, response) ==
    /\ responses' = [responses EXCEPT ![r] = response]
    /\ pc' = [pc EXCEPT ![r] = "idle"]
    /\ loc' = [loc EXCEPT ![r] = NoLocals]
    /\ req' = [req EXCEPT ![r] = NoRequest]

Goto(r, label) == pc' = [pc EXCEPT ![r] = label]

\* A request arrives and its handler goes on past its validation
Accept(r, request, label) ==
    /\ pc[r] = "idle"
    /\ served < MaxRequests
    /\ served' = served + 1
    /\ req' = [req EXCEPT ![r] = request]
    /\ responses' = [responses EXCEPT ![r] = NoResponse]
    /\ pc' = [pc EXCEPT ![r] = label]
    /\ UNCHANGED loc

\* A request arrives and its handler answers it at once
Reject(r, response) ==
    /\ pc[r] = "idle"
    /\ served < MaxRequests
    /\ served' = served + 1
    /\ responses' = [responses EXCEPT ![r] = response]
    /\ UNCHANGED <<pc, req, loc>>

ErrorResponse(status) == [status |-> status, body |-> [error |-> TRUE]]

\* get_correlation_context: the X-Trace-ID header, or a fresh uuid4
TraceHeaders == {"", "t1"}
TraceId(header) == IF header # "" THEN header ELSE "uuid4"

\* rag_query puts the trace id into every body it returns
Traced(r, response) ==
    IF req[r].kind # "rag_query" THEN response
    ELSE [status |-> response.status,
          body |-> [f \in DOMAIN response.body \cup {"trace_id"} |->
                        IF f = "trace_id" THEN TraceId(req[r].trace)
                        ELSE response.body[f]]]

\* A client as the constructor leaves it
NewInstance == [memory |-> <<>>, search_kwargs |-> 0, vectorstore |-> 1]

\* get_rag_client: if _rag_client is None
GetClientCheck(r) ==
    /\ pc[r] = "get_client"
    /\ Goto(r, IF rag_client = 0 THEN "make_client" ELSE "return_client")
    /\ UNCHANGED <<rag_client, inst, strict_fields, disk, document_processor,
                   procs,
                   req, loc, served, responses>>
    /\ UNCHANGED <<clientVars, chatVars>>

\* get_rag_client: _rag_client = <the client class>(...)
MakeClient(r) ==
    /\ pc[r] = "make_client"
    /\ inst' = Append(inst, NewInstance)
    /\ rag_client' = Len(inst) + 1
    /\ Goto(r, "return_client")
    /\ UNCHANGED <<strict_fields, disk, document_processor, procs, req, loc, served,
                   responses>>
    /\ UNCHANGED <<clientVars, chatVars>>

\* Where a handler goes on once it holds the client
AfterClient(kind) ==
    CASE kind = "ask_rag" -> "set_k"
      [] kind = "health" -> "health_info"
      [] kind = "rag_query" -> "ask_count"
      [] kind = "clear" -> "clear_search"
      [] kind = "upload" -> "make_processor"

\* get_rag_client: return _rag_client
ReturnClient(r) ==
    /\ pc[r] = "return_client"
    /\ loc' = [loc EXCEPT ![r] = [client |-> rag_client]]
    /\ Goto(r, AfterClient(req[r].kind))
    /\ UNCHANGED <<rag_client, inst, strict_fields, disk, document_processor,
                   procs,
                   req, served, responses>>
    /\ UNCHANGED <<clientVars, chatVars>>

\* ask_rag: the document count check
AskCount(r) ==
    /\ pc[r] = "ask_count"
    /\ IF DocCount(variant, local, store) = 0
       THEN Respond(r, Traced(r, [status |-> 200,
                        body |-> NoDocsResponse(variant, req[r].body.query)]))
       ELSE /\ Goto(r, IF UseMemory(enable_memory, memory_obj)
                       THEN "chain_load" ELSE "chain_run")
            /\ loc' = [loc EXCEPT ![r] =
                        [client |-> loc[r].client, history |-> <<>>]]
            /\ UNCHANGED <<req, responses>>
    /\ UNCHANGED <<rag_client, inst, strict_fields, disk, document_processor,
                   procs,
                   served>>
    /\ UNCHANGED <<clientVars, chatVars>>

\* The chain loads the memory of the client it was built on
ChainLoad(r) ==
    /\ pc[r] = "chain_load"
    /\ loc' = [loc EXCEPT ![r] =
                [client |-> loc[r].client,
                 history |-> inst[loc[r].client].memory]]
    /\ Goto(r, "chain_run")
    /\ UNCHANGED <<rag_client, inst, strict_fields, disk, document_processor,
                   procs,
                   req, served, responses>>
    /\ UNCHANGED <<clientVars, chatVars>>

\* The chain runs: question generator (when there is history), retriever,
\* LLM.  An exception leaves ask_rag and is answered 500 by the handler.
ChainRun(r, hits, fail, ans) ==
    /\ pc[r] = "chain_run"
    /\ LET docs == GetRelevantDocuments(local, hits)
           failed == IF fail = "condense" /\ loc[r].history = <<>>
                     THEN "none" ELSE fail
       IN  IF failed # "none"
           THEN Respond(r, Traced(r, ErrorResponse(500)))
           ELSE /\ loc' = [loc EXCEPT ![r] =
                            [client |-> loc[r].client,
                             history |-> loc[r].history,
                             docs |-> docs, answer |-> ans]]
                /\ Goto(r, "chain_save")
                /\ UNCHANGED <<req, responses>>
    /\ UNCHANGED <<rag_client, inst, strict_fields, disk, document_processor,
                   procs,
                   served>>
    /\ UNCHANGED <<clientVars, chatVars>>

\* A message of the memory, with the caller whose request wrote it.  The
\* program stores role and content only; the session is recorded to tell
\* the conversations apart.
Said(role, text, caller) ==
    [role |-> role, content |-> text, session |-> caller]

\* The chain saves the exchange (with memory), ask_rag formats the response
\* and the handler answers 200.
ChainSave(r) ==
    /\ pc[r] = "chain_save"
    /\ inst' =
        IF UseMemory(enable_memory, memory_obj)
        THEN [inst EXCEPT ![loc[r].client].memory =
                @ \o <<Said("user", req[r].body.query, req[r].caller),
                       Said("assistant", loc[r].answer, req[r].caller)>>]
        ELSE inst
    /\ Respond(r, Traced(r, [status |-> 200,
                   body |-> Response(req[r].body.query, loc[r].answer,
                                     FormatSources(loc[r].docs))]))
    /\ UNCHANGED <<rag_client, strict_fields, disk, document_processor, procs,
                   served>>
    /\ UNCHANGED <<clientVars, chatVars>>

ChainInputs ==
    {[fail |-> f, hits |-> h, ans |-> a] :
        f \in {"none", "condense", "retrieval", "generation"},
        h \in SimilaritySearch(store, k), a \in LLMTexts}

(***************************************************************************)
(* azure-functions/function_app.py: ask_rag and health on one shared       *)
(* ChromaRAGClient with memory enabled.                                    *)
(***************************************************************************)
FuncBodies ==
    {[json |-> FALSE], [json |-> TRUE, query |-> "", top_k |-> 1]} \cup
    {[json |-> TRUE, query |-> "q1", top_k |-> t] : t \in TopKs}

\* ask_rag: get_json raises on a body that is not JSON (answered 500); a
\* missing query is answered 400
FuncAskReceive(r, caller, body) ==
    /\ IF ~body.json THEN Reject(r, ErrorResponse(500))
       ELSE IF body.query = "" THEN Reject(r, ErrorResponse(400))
       ELSE Accept(r, [kind |-> "ask_rag", caller |-> caller, body |-> body],
                   "get_client")
    /\ UNCHANGED <<rag_client, inst, strict_fields, disk, document_processor,
                   procs>>
    /\ UNCHANGED <<clientVars, chatVars>>

\* rag_client.retriever.search_kwargs = {"k": top_k}: ChromaRetriever
\* declares no such field and searches with self.k; a retriever class that
\* rejects undeclared fields raises here, which the handler answers 500
FuncSetK(r) ==
    /\ pc[r] = "set_k"
    /\ IF strict_fields
       THEN /\ Respond(r, ErrorResponse(500))
            /\ UNCHANGED inst
       ELSE /\ inst' = [inst EXCEPT ![loc[r].client].search_kwargs =
                            req[r].body.top_k]
            /\ Goto(r, "ask_count")
            /\ UNCHANGED <<loc, req, responses>>
    /\ UNCHANGED <<rag_client, strict_fields, disk, document_processor, procs,
                   served>>
    /\ UNCHANGED <<clientVars, chatVars>>

FuncHealthReceive(r) ==
    /\ Accept(r, [kind |-> "health"], "get_client")
    /\ UNCHANGED <<rag_client, inst, strict_fields, disk, document_processor,
                   procs>>
    /\ UNCHANGED <<clientVars, chatVars>>

FuncHealthInfo(r) ==
    /\ pc[r] = "health_info"
    /\ Respond(r, [status |-> 200,
                   body |-> [database_documents |-> Len(store)]])
    /\ UNCHANGED <<rag_client, inst, strict_fields, disk, document_processor,
                   procs,
                   served>>
    /\ UNCHANGED <<clientVars, chatVars>>

FuncInit ==
    /\ entry = "functions"
    /\ variant = "ChromaRAGClient"
    /\ local = TRUE
    /\ enable_memory = TRUE
    /\ enable_notebook_logging = FALSE
    /\ memory_obj = TRUE
    /\ memory = <<>>
    /\ store \in {<<>>, <<"c1">>}
    /\ k \in TopKs
    /\ last = NoCall
    /\ handles = LiveHandles
    /\ strict_fields \in BOOLEAN
    /\ HostIdle
    /\ ChatIdle

FuncNext ==
    \E r \in Slots :
        \/ \E caller \in Callers, body \in FuncBodies :
                FuncAskReceive(r, caller, body)
        \/ FuncHealthReceive(r)
        \/ GetClientCheck(r)
        \/ MakeClient(r)
        \/ ReturnClient(r)
        \/ FuncSetK(r)
        \/ AskCount(r)
        \/ ChainLoad(r)
        \/ \E in \in ChainInputs : ChainRun(r, in.hits, in.fail, in.ans)
        \/ ChainSave(r)
        \/ FuncHealthInfo(r)

SpecFunc == FuncInit /\ [][FuncNext]_vars

(***************************************************************************)
(* src/RAG/LangChain/function_app.py: rag_query, upload_pdf and            *)
(* clear_database on one shared RAGClient over the remote index, without   *)
(* memory.  No handler takes a lock.                                       *)
(***************************************************************************)
HostBodies ==
    {[json |-> FALSE], [json |-> TRUE, query |-> ""],
     [json |-> TRUE, query |-> "q1"]}

\* rag_query is invoked: the correlation context is read from the headers
HostQueryReceive(r, body, trace) ==
    /\ Accept(r, [kind |-> "rag_query", body |-> body, trace |-> trace],
              "query_parse")
    /\ UNCHANGED <<rag_client, inst, strict_fields, disk, document_processor,
                   procs>>
    /\ UNCHANGED <<clientVars, chatVars>>

\* rag_query: get_json raises on a body that is missing or not JSON, which
\* the handler's except answers 500; an empty body or query is answered 400
QueryParseStatus(body) ==
    IF ~body.json THEN 500
    ELSE IF body.query = "" THEN 400
    ELSE 0

HostQueryParse(r) ==
    /\ pc[r] = "query_parse"
    /\ IF QueryParseStatus(req[r].body) # 0
       THEN Respond(r, Traced(r, ErrorResponse(QueryParseStatus(req[r].body))))
       ELSE /\ Goto(r, "get_client")
            /\ UNCHANGED <<req, loc, responses>>
    /\ UNCHANGED <<rag_client, inst, strict_fields, disk, document_processor,
                   procs,
                   served>>
    /\ UNCHANGED <<clientVars, chatVars>>

\* An upload: the files of the multipart body and the chunks its PDFs
\* split into
Uploads ==
    {[files |-> <<>>, batch |-> <<>>],
     [files |-> <<"notes.txt">>, batch |-> <<>>],
     [files |-> <<"a.pdf">>, batch |-> <<"c1">>],
     [files |-> <<"notes.txt", "b.pdf">>, batch |-> <<"c2">>]}

IsPdfName(filename) == filename \in {"a.pdf", "b.pdf"}

\* upload_pdf: 400 when no file was uploaded
HostUploadReceive(r, upload) ==
    /\ IF upload.files = <<>> THEN Reject(r, ErrorResponse(400))
       ELSE Accept(r, [kind |-> "upload", files |-> upload.files,
                       batch |-> upload.batch], "upload_save")
    /\ UNCHANGED <<rag_client, inst, strict_fields, disk, document_processor,
                   procs>>
    /\ UNCHANGED <<clientVars, chatVars>>

\* A temporary file: the slot whose handler created it, its position among
\* the PDFs of the upload, and whether its name was appended to temp_files
TempFile(r, i, listed) == [slot |-> r, file |-> i, listed |-> listed]

\* the finally block: os.unlink of every name in temp_files
Unlink(files, r) == {f \in files : ~(f.slot = r /\ f.listed)}

\* The loop over the uploaded files: NamedTemporaryFile(delete=False)
\* creates the file, write() fills it, and only then is the name appended
\* to temp_files.  failing is the PDF whose write raises (0: none).
SaveToDisk(files, r, n, failing) ==
    files \cup {TempFile(r, i, failing = 0 \/ i < failing) :
                    i \in 1..(IF failing = 0 THEN n ELSE failing)}

\* upload_pdf: the PDFs are written to temporary files.  A write that
\* raises ends the handler through the finally block and is answered 500;
\* an upload without a PDF is answered 400.
UploadSave(r, failing) ==
    /\ pc[r] = "upload_save"
    /\ LET n == Len(SelectSeq(req[r].files, IsPdfName))
       IN  /\ failing <= n
           /\ IF n = 0
              THEN /\ Respond(r, ErrorResponse(400))
                   /\ UNCHANGED disk
              ELSE IF failing # 0
              THEN /\ Respond(r, ErrorResponse(500))
                   /\ disk' = Unlink(SaveToDisk(disk, r, n, failing), r)
              ELSE /\ Goto(r, "get_processor")
                   /\ disk' = SaveToDisk(disk, r, n, failing)
                   /\ UNCHANGED <<req, loc, responses>>
    /\ UNCHANGED <<rag_client, inst, strict_fields, document_processor, procs,
                   served>>
    /\ UNCHANGED <<clientVars, chatVars>>

\* clear_database: 400 without {"confirm": true}
ConfirmationRequired ==
    [status |-> 400,
     body |-> [error |-> TRUE, message |-> "Confirmation required"]]

\* the clear handler without its confirmation check
HostClearReceiveUnchecked(r, confirm) ==
    /\ Accept(r, [kind |-> "clear", confirm |-> confirm], "get_client")
    /\ UNCHANGED <<rag_client, inst, strict_fields, disk, document_processor,
                   procs>>
    /\ UNCHANGED <<clientVars, chatVars>>

HostClearReceive(r, confirm) ==
    /\ IF ~confirm THEN Reject(r, ConfirmationRequired)
       ELSE Accept(r, [kind |-> "clear", confirm |-> confirm], "get_client")
    /\ UNCHANGED <<rag_client, inst, strict_fields, disk, document_processor,
                   procs>>
    /\ UNCHANGED <<clientVars, chatVars>>

\* get_document_processor: if _document_processor is None
GetProcessorCheck(r) ==
    /\ pc[r] = "get_processor"
    /\ Goto(r, IF document_processor = 0 THEN "get_client"
               ELSE "return_processor")
    /\ UNCHANGED <<rag_client, inst, strict_fields, disk, document_processor,
                   procs,
                   req, loc, served, responses>>
    /\ UNCHANGED <<clientVars, chatVars>>

\* get_document_processor: _document_processor = DocumentProcessor(rag_client)
MakeProcessor(r) ==
    /\ pc[r] = "make_processor"
    /\ procs' = Append(procs, loc[r].client)
    /\ document_processor' = Len(procs) + 1
    /\ Goto(r, "return_processor")
    /\ UNCHANGED <<rag_client, inst, strict_fields, disk, req, loc, served,
                   responses>>
    /\ UNCHANGED <<clientVars, chatVars>>

\* get_document_processor: return _document_processor
ReturnProcessor(r) ==
    /\ pc[r] = "return_processor"
    /\ loc' = [loc EXCEPT ![r] = [processor |-> document_processor]]
    /\ Goto(r, "add_embed")
    /\ UNCHANGED <<rag_client, inst, strict_fields, disk, document_processor,
                   procs,
                   req, served, responses>>
    /\ UNCHANGED <<clientVars, chatVars>>

\* index_pdf_files up to vectorstore.add_documents computing the embeddings;
\* a failure of the embedding service is answered 500
AddEmbed(r, ok) ==
    /\ pc[r] = "add_embed"
    /\ IF ok
       THEN /\ Goto(r, "add_upload")
            /\ UNCHANGED <<req, loc, responses>>
       ELSE Respond(r, ErrorResponse(500))
    /\ disk' = IF ok THEN disk ELSE Unlink(disk, r)
    /\ UNCHANGED <<rag_client, inst, strict_fields, document_processor, procs,
                   served>>
    /\ UNCHANGED <<clientVars, chatVars>>

IndexingResult(documents) ==
    [success |-> TRUE, chunks_created |-> Len(documents),
     chunks_indexed |-> Len(documents)]

\* vectorstore.add_documents writes the batch to the index; the handler
\* answers 200 with the indexing result
AddUpload(r) ==
    /\ pc[r] = "add_upload"
    /\ store' = StoreAfterAdd(variant, store, req[r].batch, TRUE)
    /\ Respond(r, [status |-> 200, body |-> IndexingResult(req[r].batch)])
    /\ disk' = Unlink(disk, r)
    /\ UNCHANGED <<rag_client, inst, strict_fields, document_processor, procs,
                   served>>
    /\ UNCHANGED <<configVars, memory, last, chatVars>>

\* RAGClient.clear_database: search("*", select="id") collects the ids
ClearSearch(r) ==
    /\ pc[r] = "clear_search"
    /\ loc' = [loc EXCEPT ![r] =
                [client |-> loc[r].client, doc_ids |-> Ids(store)]]
    /\ Goto(r, "clear_delete")
    /\ UNCHANGED <<rag_client, inst, strict_fields, disk, document_processor,
                   procs,
                   req, served, responses>>
    /\ UNCHANGED <<clientVars, chatVars>>

DeleteDocuments(st, doc_ids) ==
    SelectSeq(st, LAMBDA c : Id(c) \notin doc_ids)

\* RAGClient.clear_database: delete_documents of the ids collected
ClearDelete(r) ==
    /\ pc[r] = "clear_delete"
    /\ store' = DeleteDocuments(store, loc[r].doc_ids)
    /\ Goto(r, "clear_setup")
    /\ UNCHANGED <<rag_client, inst, strict_fields, disk, document_processor,
                   procs,
                   req, loc, served, responses>>
    /\ UNCHANGED <<configVars, memory, last, chatVars>>

\* RAGClient.clear_database: _setup_vectorstore builds a new vectorstore and
\* retriever; the handler answers 200
ClearSetup(r) ==
    /\ pc[r] = "clear_setup"
    /\ inst' = [inst EXCEPT ![loc[r].client].vectorstore = @ + 1]
    /\ Respond(r, [status |-> 200, body |-> [success |-> TRUE]])
    /\ UNCHANGED <<rag_client, strict_fields, disk, document_processor, procs,
                   served>>
    /\ UNCHANGED <<clientVars, chatVars>>

HostInit ==
    /\ entry = "http"
    /\ variant = "RAGClient"
    /\ local = FALSE
    /\ enable_memory = FALSE
    /\ enable_notebook_logging = FALSE
    /\ memory_obj = FALSE
    /\ memory = <<>>
    /\ store \in {<<>>, <<"c1">>}
    /\ k \in TopKs
    /\ last = NoCall
    /\ handles = LiveHandles
    /\ strict_fields = FALSE
    /\ HostIdle
    /\ ChatIdle

HostNext ==
    \E r \in Slots :
        \/ \E body \in HostBodies, trace \in TraceHeaders :
                HostQueryReceive(r, body, trace)
        \/ HostQueryParse(r)
        \/ \E upload \in Uploads : HostUploadReceive(r, upload)
        \/ \E failing \in 0..1 : UploadSave(r, failing)
        \/ \E confirm \in BOOLEAN : HostClearReceive(r, confirm)
        \/ GetClientCheck(r)
        \/ MakeClient(r)
        \/ ReturnClient(r)
        \/ GetProcessorCheck(r)
        \/ MakeProcessor(r)
        \/ ReturnProcessor(r)
        \/ AskCount(r)
        \/ \E in \in ChainInputs : ChainRun(r, in.hits, in.fail, in.ans)
        \/ ChainSave(r)
        \/ \E ok \in BOOLEAN : AddEmbed(r, ok)
        \/ AddUpload(r)
        \/ ClearSearch(r)
        \/ ClearDelete(r)
        \/ ClearSetup(r)

SpecHost == HostInit /\ [][HostNext]_vars

(***************************************************************************)
(* frontend/streamlit_app.py: one browser session.  st.session_state holds *)
(* the chat messages (their roles here) and the clear confirmation flag;   *)
(* the backend is what query_rag and clear_database return: a result or    *)
(* an error.                                                               *)
(***************************************************************************)
Message(role) == [role |-> role]

\* a chat input that records no assistant message when the query fails
ChatQuestionNoErrorReply(error) ==
    /\ Len(messages) + 2 <= MaxChatMessages
    /\ messages' = messages \o (IF error THEN <<Message("user")>>
                                ELSE <<Message("user"), Message("assistant")>>)
    /\ chat_last' = IF error THEN "question_error" ELSE "question_answered"
    /\ UNCHANGED show_clear_confirm
    /\ UNCHANGED <<clientVars, hostVars>>

\* The chat input: the user message is appended, query_rag is called, and
\* the assistant message (the answer or the error text) is appended
ChatQuestion(error) ==
    /\ Len(messages) + 2 <= MaxChatMessages
    /\ messages' = messages \o <<Message("user"), Message("assistant")>>
    /\ chat_last' = IF error THEN "question_error" ELSE "question_answered"
    /\ UNCHANGED show_clear_confirm
    /\ UNCHANGED <<clientVars, hostVars>>

\* The Clear Chat button
ClearChat ==
    /\ messages' = <<>>
    /\ chat_last' = "clear_chat"
    /\ UNCHANGED show_clear_confirm
    /\ UNCHANGED <<clientVars, hostVars>>

\* The Clear Database button, shown while no confirmation is pending
ClearDatabaseButton ==
    /\ ~show_clear_confirm
    /\ show_clear_confirm' = TRUE
    /\ chat_last' = "clear_asked"
    /\ UNCHANGED messages
    /\ UNCHANGED <<clientVars, hostVars>>

\* Confirm Clear: the backend is called; the chat is emptied on success
ConfirmClear(error, cleared) ==
    /\ show_clear_confirm
    /\ ~error => cleared
    /\ store' = IF cleared THEN StoreAfterClear(store) ELSE store
    /\ messages' = IF error THEN messages ELSE <<>>
    /\ show_clear_confirm' = FALSE
    /\ chat_last' = IF error THEN "clear_failed" ELSE "clear_success"
    /\ UNCHANGED <<configVars, memory, last, hostVars>>

\* Cancel
CancelClear ==
    /\ show_clear_confirm
    /\ show_clear_confirm' = FALSE
    /\ chat_last' = "clear_cancelled"
    /\ UNCHANGED messages
    /\ UNCHANGED <<clientVars, hostVars>>

ChatInit ==
    /\ entry = "streamlit"
    /\ variant = "RAGClient"
    /\ local = FALSE
    /\ enable_memory = FALSE
    /\ enable_notebook_logging = FALSE
    /\ memory_obj = FALSE
    /\ memory = <<>>
    /\ store \in {<<>>, <<"c1">>}
    /\ k \in TopKs
    /\ last = NoCall
    /\ handles = LiveHandles
    /\ strict_fields = FALSE
    /\ HostIdle
    /\ ChatIdle

ChatNext ==
    \/ \E error \in BOOLEAN : ChatQuestion(error)
    \/ ClearChat
    \/ ClearDatabaseButton
    \/ \E error, cleared \in BOOLEAN : ConfirmClear(error, cleared)
    \/ CancelClear

SpecChat == ChatInit /\ [][ChatNext]_vars

(***************************************************************************)
(* The command line (rag-cli.py).  One run of main is one action: the      *)
(* process builds a ChromaRAGClient over the persisted collection, sets    *)
(* the retriever's k, and then goes through --info, --clear-db, the        *)
(* indexing options and --query in that order.  The module imports         *)
(* ChromaDocumentProcessor from PDFprocessor at load time; when that       *)
(* import fails the run ends before main is entered.  An exception inside  *)
(* main is caught at its end and the process exits with code 1.            *)
(***************************************************************************)
CliArgs ==
    [info : BOOLEAN, clear_db : BOOLEAN,
     index_pdfs : {<<>>, <<"/docs/a.pdf">>},
     query : {"", "q1"}, top_k : TopKs,
     memory : {FALSE}, no_notebook_log : {TRUE}]

CliOutcome(st, imported, args, ifail, hits, fail, ans) ==
    LET cleared == imported /\ ~args.info /\ args.clear_db
        st1 == IF cleared THEN StoreAfterClear(st) ELSE st
        done == \/ ~imported
                \/ args.info
                \/ args.clear_db /\ args.index_pdfs = <<>> /\ args.query = ""
        indexing == ~done /\ args.index_pdfs # <<>>
        ix == IndexPdfFilesOutcome("ChromaRAGClient", TRUE, st1,
                                   args.index_pdfs, ifail, 0)
        st2 == IF indexing THEN ix.store ELSE st1
        index_raised == indexing /\ ix.call.raised
        asking == ~done /\ ~index_raised /\ args.query # ""
        ask == AskRagOutcome("ChromaRAGClient", TRUE, args.memory, args.memory,
                             ~args.no_notebook_log, <<>>, st2, args.query,
                             hits, fail, args.query, ans)
    IN  [call |->
            [op |-> "cli", args |-> args, imported |-> imported,
             raised |-> FALSE,
             cleared |-> cleared,
             indexing |-> indexing,
             indexed |-> IF indexing /\ ~index_raised THEN ix.call.result
                         ELSE NoResult,
             asking |-> asking,
             result |-> IF asking /\ ~ask.call.raised THEN ask.call.result
                        ELSE NoResult,
             exit_code |-> IF \/ ~imported
                              \/ index_raised
                              \/ asking /\ ask.call.raised
                           THEN 1 ELSE 0,
             llm_calls |-> IF asking THEN ask.call.llm_calls ELSE 0,
             store_before |-> st,
             count_at_call |-> Len(st)],
         store |-> st2]

CliMain(imported, args, ifail, fail, ans) ==
    /\ entry = "cli"
    /\ LET st1 == IF imported /\ ~args.info /\ args.clear_db
                  THEN StoreAfterClear(store) ELSE store
           ix == IndexPdfFilesOutcome("ChromaRAGClient", TRUE, st1,
                                      args.index_pdfs, ifail, 0)
       IN  /\ Len(ix.store) <= MaxStore
           /\ \E hits \in SimilaritySearch(ix.store, args.top_k) :
                LET out == CliOutcome(store, imported, args, ifail, hits,
                                      fail, ans)
                IN  /\ last' = out.call
                    /\ store' = out.store
    /\ k' = IF imported THEN args.top_k ELSE k
    /\ UNCHANGED <<entry, handles, variant, local, enable_memory,
                   enable_notebook_logging, memory_obj, memory>>
    /\ UNCHANGED <<hostVars, chatVars>>

CliInit ==
    /\ entry = "cli"
    /\ variant = "ChromaRAGClient"
    /\ local = TRUE
    /\ enable_memory = FALSE
    /\ enable_notebook_logging = FALSE
    /\ memory_obj = FALSE
    /\ memory = <<>>
    /\ store \in SeqsUpTo(Chunks, MaxStore)
    /\ k \in TopKs
    /\ last = NoCall
    /\ handles = LiveHandles
    /\ strict_fields = FALSE
    /\ HostIdle
    /\ ChatIdle

CliNext ==
    \E imported \in BOOLEAN, args \in CliArgs,
       ifail \in {"none", "embedding"}, fail \in {"none", "generation"},
       ans \in LLMTexts :
        CliMain(imported, args, ifail, fail, ans)

(***************************************************************************)
(* The three boundary layers over the program: the HTTP host, the          *)
(* Streamlit front end and the command line.  Which one a behaviour runs   *)
(* is fixed by entry in its initial state.                                 *)
(***************************************************************************)
BoundaryInit == HostInit \/ ChatInit \/ CliInit

BoundaryNext ==
    \/ entry = "http" /\ HostNext
    \/ entry = "streamlit" /\ ChatNext
    \/ entry = "cli" /\ CliNext

SpecBoundary == BoundaryInit /\ [][BoundaryNext]_vars

(***************************************************************************)
(* interactive_mode of ChromaRAGClient: a loop that reads a line, strips   *)
(* it and dispatches on its lower-case form.  A line is the sequence of    *)
(* its characters, so that the prefix and substring tests of the dispatch  *)
(* are computed as the code computes them.  An exception inside the loop   *)
(* body is printed and the loop goes on.                                   *)
(***************************************************************************)
UpperLetters ==
    <<"A", "B", "C", "D", "E", "F", "G", "H", "I", "J", "K", "L", "M",
      "N", "O", "P", "Q", "R", "S", "T", "U", "V", "W", "X", "Y", "Z">>
LowerLetters ==
    <<"a", "b", "c", "d", "e", "f", "g", "h", "i", "j", "k", "l", "m",
      "n", "o", "p", "q", "r", "s", "t", "u", "v", "w", "x", "y", "z">>

\* str.lower
Lower(s) ==
    [i \in 1..Len(s) |->
        IF \E j \in 1..26 : UpperLetters[j] = s[i]
        THEN LowerLetters[CHOOSE j \in 1..26 : UpperLetters[j] = s[i]]
        ELSE s[i]]

\* str.strip
RECURSIVE StripInput(_)
StripInput(s) ==
    IF s = <<>> THEN s
    ELSE IF Head(s) = " " THEN StripInput(Tail(s))
    ELSE IF s[Len(s)] = " " THEN StripInput(SubSeq(s, 1, Len(s) - 1))
    ELSE s

\* str.startswith
StartsWith(s, prefix) ==
    Len(s) >= Len(prefix) /\ SubSeq(s, 1, Len(prefix)) = prefix

\* sub in s
Contains(s, sub) ==
    \E i \in 1..(Len(s) - Len(sub) + 1) : SubSeq(s, i, i + Len(sub) - 1) = sub

WordMemory == <<"m", "e", "m", "o", "r", "y">>
WordOn == <<"o", "n">>
WordOff == <<"o", "f", "f">>
MemoryOn == WordMemory \o <<" ">> \o WordOn
MemoryOff == WordMemory \o <<" ">> \o WordOff
WordQuit == <<"q", "u", "i", "t">>
WordExit == <<"e", "x", "i", "t">>
WordHelp == <<"h", "e", "l", "p">>
WordInfo == <<"i", "n", "f", "o">>

\* The lines typed: the commands, in other spellings too, questions, and
\* questions that begin with the word memory
UserInputs ==
    {MemoryOn, MemoryOff,
     <<"M", "e", "m", "o", "r", "y", " ", "O", "F", "F", " ">>,
     WordMemory,
     WordMemory \o <<" ", "c", "o", "n", "s", "u", "m", "p", "t", "i", "o",
                     "n", "?">>,
     WordMemory \o <<" ", "l", "e", "a", "k", "s", "?">>,
     WordQuit, WordHelp, WordInfo, <<>>, <<" ">>,
     <<"w", "h", "y", "?">>, <<"h", "o", "w", "?">>}

\* The effect of a memory command on (enable_memory, self.memory is set)
MemoryCommand(lower, en, obj) ==
    IF Contains(lower, WordOn) THEN [enable_memory |-> TRUE, memory |-> TRUE]
    ELSE IF Contains(lower, WordOff)
         THEN [enable_memory |-> FALSE, memory |-> obj]
    ELSE [enable_memory |-> en, memory |-> obj]

Command(op, text) == [NoCall EXCEPT !.op = op, !.query = text]

InteractiveInput(line, hits, fail, cq, ans) ==
    /\ entry = "interactive"
    /\ last.op # "exit"
    /\ LET user_input == StripInput(line)
           lower == Lower(user_input)
       IN  IF lower \in {WordQuit, WordExit}
           THEN /\ last' = Command("exit", user_input)
                /\ UNCHANGED <<enable_memory, memory_obj, memory>>
           ELSE IF lower \in {WordHelp, WordInfo}
           THEN /\ last' = Command("command", user_input)
                /\ UNCHANGED <<enable_memory, memory_obj, memory>>
           ELSE IF StartsWith(lower, WordMemory)
           THEN LET set == MemoryCommand(lower, enable_memory, memory_obj)
                IN  /\ enable_memory' = set.enable_memory
                    /\ memory_obj' = set.memory
                    /\ last' = Command("command", user_input)
                    /\ UNCHANGED memory
           ELSE IF user_input = <<>>
           THEN /\ last' = Command("command", user_input)
                /\ UNCHANGED <<enable_memory, memory_obj, memory>>
           ELSE /\ UseMemory(enable_memory, memory_obj)
                        => Len(memory) < 2 * MaxTurns
                /\ LET out == AskRagOutcome(variant, local, enable_memory,
                                            memory_obj,
                                            enable_notebook_logging, memory,
                                            store, user_input, hits, fail,
                                            cq, ans)
                   IN  /\ last' = out.call
                       /\ memory' = out.memory
                /\ UNCHANGED <<enable_memory, memory_obj>>
    /\ UNCHANGED <<entry, handles, variant, local, enable_notebook_logging,
                   store, k>>
    /\ UNCHANGED <<hostVars, chatVars>>

InteractiveInit ==
    /\ entry = "interactive"
    /\ variant = "ChromaRAGClient"
    /\ local = TRUE
    /\ enable_memory \in BOOLEAN
    /\ enable_notebook_logging = FALSE
    /\ memory_obj = enable_memory
    /\ memory = <<>>
    /\ store \in {<<>>, <<"c1", "c2">>}
    /\ k = 2
    /\ last = NoCall
    /\ handles = LiveHandles
    /\ strict_fields = FALSE
    /\ HostIdle
    /\ ChatIdle

InteractiveNext ==
    \E line \in UserInputs, in \in LangInputs :
        InteractiveInput(line, in.hits, in.fail, in.cq, in.ans)

SpecInteractive == InteractiveInit /\ [][InteractiveNext]_vars

(***************************************************************************)
(*                              The claims                                 *)
(***************************************************************************)
Returned == last.op = "ask" /\ ~last.raised

\* Texts that only the generation service produces
GeneratedTexts ==
    LLMTexts \cup StandaloneQuestions \cup {Strip(r) : r \in RawCompletions}

\* C1: an ask/ask_rag called while the vector store holds zero documents
\* never invokes the generation service, and what it returns has
\* context_used = FALSE and no sources (for every client variant).
C1_EmptyStoreNeverGenerates ==
    (last.op = "ask" /\ last.count_at_call = 0) =>
        /\ last.llm_calls = 0
        /\ ~last.raised =>
            /\ last.result.context_used = FALSE
            /\ last.result.sources = <<>>

\* C2: every result returned with context_used = FALSE has the fixed "no
\* information found" answer, never a text of the generation service, and
\* no sources.
C2_UngroundedAnswerIsFallback ==
    (Returned /\ last.result.context_used = FALSE) =>
        /\ last.result.answer \in FallbackAnswers
        /\ last.result.answer \notin GeneratedTexts
        /\ last.result.sources = <<>>

\* C3: every result returned carries context_used, num_sources and sources
\* with context_used = (num_sources > 0) = (len(sources) > 0).
C3_ResultInvariant ==
    Returned =>
        /\ {"context_used", "num_sources", "sources"} \subseteq DOMAIN last.result
        /\ last.result.context_used = (last.result.num_sources > 0)
        /\ (last.result.num_sources > 0) = (Len(last.result.sources) > 0)

\* C4: when retrieval fails during ask/ask_rag the call does not raise: it
\* returns the "no information" result, context_used = FALSE, no sources.
C4_RetrievalFailureDegrades ==
    (last.op = "ask" /\ last.failed \in {"retrieval", "search"}) =>
        /\ ~last.raised
        /\ last.result.context_used = FALSE
        /\ last.result.sources = <<>>

\* C5: when the generation service fails or returns no choices during ask
\* the call does not raise: it returns a result whose answer is an explicit
\* error message (not empty, not generated) and whose context_used is FALSE.
C5_GenerationFailureDegrades ==
    (last.op = "ask" /\ last.failed \in {"generation", "no_choices", "condense"}) =>
        /\ ~last.raised
        /\ last.result.answer \notin GeneratedTexts \cup {""}
        /\ last.result.context_used = FALSE

\* C7: an ask that fails at any step (retrieval, generation, formatting,
\* notebook logging) leaves the conversation memory as it was before the call.
C7_FailedAskLeavesMemory ==
    (last.op = "ask" /\ last.raised) => memory = last.mem_before

\* h occurs in p in order: p has positions, increasing, that hold h's elements
OccursInOrder(h, p) ==
    \E f \in [DOMAIN h -> DOMAIN p] :
        /\ \A i, j \in DOMAIN h : i < j => f[i] < f[j]
        /\ \A i \in DOMAIN h : p[f[i]] = h[i]

\* The part of a prompt that precedes its context documents
BeforeContext(p) ==
    LET at == {i \in DOMAIN p : p[i] = "Context Documents:"}
    IN  IF at = {} THEN p
        ELSE SubSeq(p, 1, (CHOOSE i \in at : \A j \in at : i <= j) - 1)

\* C9: with memory enabled, the prompt of the generation call of every turn
\* after the first contains the question and the answer of every retained
\* earlier turn, verbatim and in order, before the context documents.
C9_PromptCarriesHistory ==
    (last.op = "ask" /\ last.history_read # <<>> /\ last.prompt # <<>>) =>
        OccursInOrder([i \in DOMAIN last.history_read |->
                          last.history_read[i].content],
                      BeforeContext(last.prompt))


\* C6: with one client instance reused across requests and memory enabled,
\* the conversation a caller's ask_rag reads holds that caller's turns only,
\* and the memory of an instance never holds turns of two callers.
C6_SessionsNeverShareMemory ==
    /\ \A r \in Slots :
        pc[r] \in {"chain_run", "chain_save"} =>
            \A j \in DOMAIN loc[r].history :
                loc[r].history[j].session = req[r].caller
    /\ \A i \in DOMAIN inst :
        \A j1, j2 \in DOMAIN inst[i].memory :
            inst[i].memory[j1].session = inst[i].memory[j2].session


\* C10: clear_database's delete-then-reinitialise sequence never runs while
\* another request is inside add_documents or ask_rag: no request is between
\* clear_database's search and its end while another one is writing a batch
\* or running its chain.
C10_ClearIsSerialised ==
    \A r1, r2 \in Slots :
        r1 # r2 =>
            ~(/\ pc[r1] \in {"clear_delete", "clear_setup"}
              /\ pc[r2] \in {"add_upload", "chain_run", "chain_save"})


\* C8: the conversation a session retains never grows past the configured
\* maximum, MAX_CHAT_HISTORY, whatever the sequence of questions.
C8_HistoryBounded == Len(messages) <= MAX_CHAT_HISTORY


\* C11: clear_database succeeds from any store state, also on a store that
\* was just cleared, and get_database_info called after a clear_database
\* reports total_documents = 0.
C11_ClearThenInfoReportsZero ==
    /\ last.op = "clear_database" => ~last.raised
    /\ (last.op = "get_database_info" /\ last.after = "clear_database") =>
            /\ "total_documents" \in DOMAIN last.result
            /\ last.result.total_documents = 0

Confirmed(r) == "confirm" \in DOMAIN req[r] /\ req[r].confirm

(***************************************************************************)
(* C12.  The database is never cleared implicitly.  At each boundary layer *)
(* clear_database is invoked only after an explicit confirmation: an HTTP  *)
(* request enters the client's clear_database only when its body carried   *)
(* confirm, the front end clears only from the pending confirmation, the   *)
(* command line clears only with --clear-db; and documents leave the store *)
(* only in such a confirmed clear, so a request without the confirmation   *)
(* leaves the store as it was.                                             *)
(***************************************************************************)
C12_ClearOnlyAfterConfirmation ==
    [][/\ \A r \in Slots :
            (pc[r] # "clear_search" /\ pc'[r] = "clear_search")
                => Confirmed(r)
       /\ (last'.op = "cli" /\ last'.cleared) => last'.args.clear_db
       /\ Len(store') < Len(store) =>
            CASE entry = "http" ->
                    \E r \in Slots : pc[r] = "clear_delete" /\ Confirmed(r)
              [] entry = "streamlit" -> show_clear_confirm
              [] entry = "cli" -> last'.op = "cli" /\ last'.args.clear_db
              [] OTHER -> FALSE]_vars

C12_Witness ==
    /\ entry = "http"
    /\ store = <<>>
    /\ \E r, r2 \in Slots :
        /\ pc[r] = "clear_setup"
        /\ Confirmed(r)
        /\ loc[r].doc_ids # {}
        /\ responses[r2] = ConfirmationRequired

IndexingReturned ==
    last.op \in {"index_pdf_files", "index_directory"} /\ ~last.raised

(***************************************************************************)
(* C13.  Every result of index_pdf_files or index_directory has            *)
(* chunks_indexed <= chunks_created, and chunks_indexed = 0 when success   *)
(* is false.                                                               *)
(***************************************************************************)
C13_IndexedWithinCreated ==
    IndexingReturned =>
        /\ last.result.chunks_indexed <= last.result.chunks_created
        /\ ~last.result.success => last.result.chunks_indexed = 0

C13_Witness ==
    /\ IndexingReturned
    /\ ~last.result.success
    /\ last.result.chunks_created > 0

(***************************************************************************)
(* C14.  An embedding or indexing failure during a batch aborts the whole  *)
(* batch: the store is as it was before the call, and index_pdf_files      *)
(* returns success = false with chunks_indexed = 0 rather than raising.    *)
(***************************************************************************)
C14_FailureAbortsBatch ==
    (/\ last.op \in {"index_pdf_files", "index_directory"}
     /\ last.failed \in {"embedding", "indexing"}) =>
        /\ ~last.raised
        /\ store = last.store_before
        /\ ~last.result.success
        /\ last.result.chunks_indexed = 0

(***************************************************************************)
(* C15.  For a list that mixes valid and invalid paths (missing, not       *)
(* .pdf, zero bytes) the invalid paths are skipped without failing the     *)
(* batch, the valid files are processed in input order, and                *)
(* files_processed is the number of files that were processed into chunks. *)
(***************************************************************************)
C15_MixedPathsCountProcessed ==
    (/\ IndexingReturned
     /\ last.kinds \ {"file"} # {}
     /\ last.valid_files # <<>>
     /\ last.failed = "none") =>
        /\ last.documents = ProcessPdfBatch(last.valid_files)
        /\ last.documents # <<>> => last.result.success
        /\ last.result.files_processed = last.successful

(***************************************************************************)
(* C16.  When no input path is a valid file (for instance a single         *)
(* zero-byte file) index_pdf_files returns success = false with            *)
(* files_processed = 0, chunks_created = 0 and chunks_indexed = 0, and     *)
(* neither the PDF loader nor the vector store is called.                  *)
(***************************************************************************)
C16_NoValidFileNothingDone ==
    (/\ last.op \in {"index_pdf_files", "index_directory"}
     /\ "file" \notin last.kinds) =>
        /\ ~last.raised
        /\ last.result = NothingIndexed
        /\ last.loader_calls = 0
        /\ last.store_calls = 0
        /\ store = last.store_before

C16_Witness ==
    /\ last.op = "index_pdf_files"
    /\ last.kinds = {"empty"}
    /\ ~last.raised
    /\ last.result.files_processed = 0
    /\ store # <<>>

(***************************************************************************)
(* C17.  Chunk ids are unique within the store: the ids of a batch that    *)
(* process_pdf_batch produced are pairwise distinct (several files, one    *)
(* path given twice, files whose chunks start with the same 100 characters *)
(* at the same index), and a chunk of a later call never gets the id of a  *)
(* different chunk already stored.                                         *)
(***************************************************************************)
C17_ChunkIdsUnique ==
    last.op \in {"index_pdf_files", "index_directory"} =>
        /\ DistinctIds(last.documents)
        /\ \A i \in DOMAIN last.store_before, j \in DOMAIN last.documents :
                last.store_before[i] # last.documents[j]
                    => Id(last.store_before[i]) # Id(last.documents[j])

(***************************************************************************)
(* C18.  The top-k a caller supplies in the request body is the k the      *)
(* search of that request runs with, and the request's result holds at     *)
(* most that many sources, whatever other requests on the shared client    *)
(* asked for.                                                              *)
(***************************************************************************)
C18_TopKIsSearchK ==
    \A r \in Slots :
        /\ (pc[r] = "chain_run" /\ req[r].kind = "ask_rag")
                => k = req[r].body.top_k
        /\ (pc[r] = "chain_save" /\ req[r].kind = "ask_rag")
                => Len(loc[r].docs) <= req[r].body.top_k

(***************************************************************************)
(* C19.  When the embedding of the query fails or comes back empty,        *)
(* search_documents does not query the store and ask returns the fallback  *)
(* result (context_used false, no sources) without calling the LLM and     *)
(* without raising.                                                        *)
(***************************************************************************)
C19_EmbeddingFailureGivesFallback ==
    (/\ variant = "AzureRAGClient"
     /\ last.op = "ask"
     /\ last.failed \in {"embedding", "embedding_empty"}) =>
        /\ ~last.raised
        /\ last.store_queries = 0
        /\ last.llm_calls = 0
        /\ last.result = NoInfoResponse(last.query)

UsesChromaRetriever == variant \in {"ChromaRAGClient", "RAGClient"} /\ local

ResultFields == {"query", "answer", "sources", "context_used", "num_sources"}
SourceFields == {"title", "source", "score", "page"}

(***************************************************************************)
(* C21.  Every result returned by every client variant has the same fixed  *)
(* shape: exactly the fields query, answer, sources, context_used and      *)
(* num_sources, every entry of sources has exactly the fields title,       *)
(* source, score and page, and page is the "N/A" sentinel when the chunk   *)
(* has no page metadata.                                                   *)
(***************************************************************************)
C21_ResultShapeFixed ==
    (last.op = "ask" /\ ~last.raised) =>
        /\ DOMAIN last.result = ResultFields
        /\ \A j \in DOMAIN last.result.sources :
            /\ DOMAIN last.result.sources[j] = SourceFields
            /\ "page" \notin DOMAIN Metadata(last.hits[j].chunk)
                    => last.result.sources[j].page = "N/A"

(***************************************************************************)
(* C22.  An ask call persists no state other than the conversation: with   *)
(* memory disabled, a step that is an ask/ask_rag call leaves the          *)
(* retriever's k, the store and its chunks, the memory and the memory      *)
(* switches of the client as they were before the call.                    *)
(***************************************************************************)
C22_AskKeepsClientState ==
    [][(last'.op = "ask" /\ ~enable_memory) =>
            /\ k' = k
            /\ store' = store
            /\ memory' = memory
            /\ memory_obj' = memory_obj
            /\ enable_memory' = enable_memory
            /\ enable_notebook_logging' = enable_notebook_logging
            /\ <<variant, local>>' = <<variant, local>>]_vars

C22_Witness ==
    /\ last.op = "ask"
    /\ ~enable_memory
    /\ ~last.raised
    /\ last.result.context_used
    /\ Len(last.hits) = 2

(***************************************************************************)
(* C23.  create_rag_prompt is deterministic and order-preserving: the      *)
(* prompt is a function of the query and the chunk sequence alone, and for *)
(* n chunks it holds exactly n blocks labelled Document 1 .. Document n in *)
(* retrieval order, each with the source label (and the title when there   *)
(* is one) and the body of its chunk, followed by the literal question.    *)
(***************************************************************************)
C23_PromptBlocksInOrder ==
    (variant = "AzureRAGClient" /\ last.op = "ask" /\ last.llm_calls > 0) =>
        /\ DOMAIN last.prompt = {"system", "blocks", "question"}
        /\ last.prompt.system = "Instructions"
        /\ last.prompt.question = last.query
        /\ Len(last.prompt.blocks) = Len(last.docs)
        /\ \A j \in DOMAIN last.docs :
            /\ last.prompt.blocks[j].label = j
            /\ last.prompt.blocks[j].content = last.docs[j].content
            /\ last.prompt.blocks[j].source_info =
                    IF last.docs[j].title = ""
                    THEN <<last.docs[j].source>>
                    ELSE <<last.docs[j].source, last.docs[j].title>>

C23_Witness ==
    /\ variant = "AzureRAGClient"
    /\ last.op = "ask"
    /\ last.llm_calls > 0
    /\ Len(last.docs) = 2
    /\ last.docs[1].title = ""
    /\ last.docs[2].title # ""

(***************************************************************************)
(* C24.  After any sequence of clear_database, add_documents and ask_rag   *)
(* calls on one client, the retriever that ask_rag searches with and the   *)
(* vectorstore that add_documents and the document count use refer to the  *)
(* same, live collection: no operation holds a handle to a deleted         *)
(* collection, and what a query retrieves after a clear are documents      *)
(* added since.                                                            *)
(***************************************************************************)
C24_HandlesReferToLiveCollection ==
    /\ handles.vectorstore
    /\ handles.retriever
    /\ (last.op = "ask" /\ last.failed = "none") =>
            \A j \in DOMAIN last.hits :
                \E i \in DOMAIN store : store[i] = last.hits[j].chunk

C24_Witness ==
    /\ variant \in {"ChromaRAGClient", "RAGClient"}
    /\ local
    /\ last.op = "clear_database"
    /\ last.count_at_call > 0
    /\ store = <<>>

(***************************************************************************)
(* C25.  reindex_database(paths, clear_existing = True) clears the store   *)
(* before it validates the paths and then indexes: it returns a result,    *)
(* after which the store holds exactly the chunks of the valid files of    *)
(* paths; when no path is valid or the indexing fails the store is left    *)
(* empty and the result has success = false.                               *)
(***************************************************************************)
C25_ReindexReplacesStore ==
    (last.op = "reindex_database" /\ last.clear_existing) =>
        /\ ~last.raised
        /\ last.result.success =>
                {store[i] : i \in DOMAIN store} =
                    {last.documents[j] : j \in DOMAIN last.documents}
        /\ ~last.result.success => store = <<>>

(***************************************************************************)
(* C26.  Under concurrent HTTP requests get_rag_client and                 *)
(* get_document_processor construct at most one RAGClient and one          *)
(* DocumentProcessor in the life of the process, and every request uses    *)
(* that one instance.                                                      *)
(***************************************************************************)
C26_OneClientOneProcessor ==
    /\ Len(inst) <= 1
    /\ Len(procs) <= 1
    /\ \A r \in Slots : "client" \in DOMAIN loc[r] => loc[r].client = 1
    /\ \A r \in Slots : "processor" \in DOMAIN loc[r] => loc[r].processor = 1

(***************************************************************************)
(* C27.  Every request to the rag/query handler ends in one response with  *)
(* status 200, 400 or 500 whose body carries a trace_id, equal to the      *)
(* request's X-Trace-ID header when that header is present; a request      *)
(* whose body is missing, is not valid JSON or lacks a non-empty query is  *)
(* answered 400 and never reaches the RAG client.                          *)
(***************************************************************************)
C27_QueryAnsweredWithTrace ==
    [][\A r \in Slots :
        (req[r].kind = "rag_query" /\ pc[r] # "idle" /\ pc'[r] = "idle") =>
            /\ responses'[r].status \in {200, 400, 500}
            /\ "trace_id" \in DOMAIN responses'[r].body
            /\ req[r].trace # "" => responses'[r].body.trace_id = req[r].trace
            /\ (~req[r].body.json \/ req[r].body.query = "") =>
                    /\ responses'[r].status = 400
                    /\ pc[r] = "query_parse"]_vars

\* C28: once the rag/upload handler has returned, on every exit path
\* (success, no valid PDF, indexing failure, an exception while an uploaded
\* file is read or written), no temporary file created by that request is
\* left on disk.
C28_NoTempFileLeft ==
    \A r \in Slots : pc[r] = "idle" => \A f \in disk : f.slot # r

(***************************************************************************)
(* C29.  Interactive mode: while memory is off a question neither reads    *)
(* nor extends the memory; switching memory on again finds the earlier     *)
(* turns still there; and only the lines 'memory on' and 'memory off'      *)
(* (in any letter case, surrounding blanks aside) change enable_memory.    *)
(***************************************************************************)
C29_MemorySwitchedOnlyByItsCommands ==
    [][/\ (last'.op = "ask" /\ ~enable_memory) =>
                memory' = memory /\ last'.history_read = <<>>
       /\ (enable_memory' /\ ~enable_memory) => memory' = memory
       /\ enable_memory' # enable_memory =>
                /\ last'.op = "command"
                /\ Lower(last'.query) \in {MemoryOn, MemoryOff}]_vars

\* user, assistant, user, assistant, ...: an even number of messages
Alternating(msgs) ==
    /\ Len(msgs) % 2 = 0
    /\ \A i \in 1..Len(msgs) :
            msgs[i].role = IF i % 2 = 1 THEN "user" ELSE "assistant"

(***************************************************************************)
(* C30.  Streamlit chat: session_state.messages is always strictly         *)
(* alternating user, assistant, ... and of even length; a question         *)
(* appends exactly one user message and then one assistant message (the    *)
(* answer or the error text); a successful database clear and the Clear    *)
(* Chat button reset the list to empty.                                    *)
(***************************************************************************)
C30_MessagesAlternate ==
    [][/\ Alternating(messages)
       /\ Alternating(messages')
       /\ chat_last' \in {"question_answered", "question_error"} =>
            messages' = messages \o <<Message("user"), Message("assistant")>>
       /\ chat_last' \in {"clear_chat", "clear_success"} =>
            messages' = <<>>]_vars

C30_Witness ==
    /\ chat_last = "question_error"
    /\ Len(messages) = 4
    /\ messages[3].role = "user"
    /\ messages[4].role = "assistant"

=============================================================================
